---- MODULE Spec2Model ----
(***************************************************************************)
(* Model of src/app.py: the two rule-based classifiers of the registry     *)
(* review tool (assess_infant_inclusion, assess_cgt_relevance_and_links),  *)
(* the age extraction they rest on (extract_min_max_age) and the trial     *)
(* registry lookup (check_clinicaltrials_gov).                             *)
(*                                                                         *)
(* Texts are character strings.  Python's str methods and the regular      *)
(* expressions of the source are computed character by character: a       *)
(* pattern is a function from a set of start positions to the set of       *)
(* positions at which a match can end.  The alphabet of the modelled texts *)
(* is ASCII.                                                               *)
(***************************************************************************)
EXTENDS Integers, Sequences, FiniteSets, TLC

VARIABLES
    parts,      \* the pieces the input text is made of (the fields joined at line 323)
    text,       \* the text handed to the function
    condition,  \* the condition handed to the function
    response,   \* what the trial registry answered during the call
    pc,         \* "start" before the call, then the function that was called
    min_age,    \* extract_min_max_age's results
    max_age,
    result,     \* the label returned, or the exception raised
    links       \* the links returned

vars == <<parts, text, condition, response, pc, min_age, max_age, result, links>>

(***************************************************************************)
(* Python values                                                           *)
(***************************************************************************)
\* None, for an age bound that was not found (ages are >= 0).
None == -1

\* A cell of the sheet: a string, or absent (NaN / None).
Str(s) == [isna |-> FALSE, s |-> s]
NaN == [isna |-> TRUE, s |-> ""]

\* pd.notna(v)
NotNa(v) == ~v.isna

(***************************************************************************)
(* str methods                                                             *)
(***************************************************************************)
CharAt(s, i) == SubSeq(s, i, i)

UpperCase == "ABCDEFGHIJKLMNOPQRSTUVWXYZ"
LowerCase == "abcdefghijklmnopqrstuvwxyz"

LowerChar(c) ==
    IF \E k \in 1..Len(UpperCase) : CharAt(UpperCase, k) = c
    THEN CharAt(LowerCase, CHOOSE k \in 1..Len(UpperCase) : CharAt(UpperCase, k) = c)
    ELSE c

\* s.lower()
RECURSIVE Lower(_)
Lower(s) == IF s = "" THEN "" ELSE LowerChar(CharAt(s, 1)) \o Lower(Tail(s))

\* s[i-1:].startswith(k)
StartsWithAt(s, i, k) ==
    /\ i + Len(k) - 1 <= Len(s)
    /\ SubSeq(s, i, i + Len(k) - 1) = k

\* s.startswith(k)
StartsWith(s, k) == StartsWithAt(s, 1, k)

\* k in s
Contains(s, k) == \E i \in 1..(Len(s) - Len(k) + 1) : StartsWithAt(s, i, k)

\* s.replace(a, b) for a single character a
RECURSIVE Replace(_, _, _)
Replace(s, a, b) ==
    IF s = "" THEN ""
    ELSE (IF CharAt(s, 1) = a THEN b ELSE CharAt(s, 1)) \o Replace(Tail(s), a, b)

\* int(s) for a string of decimal digits
DigitVal(c) == CHOOSE d \in 0..9 : ToString(d) = c

RECURSIVE ParseInt(_)
ParseInt(s) ==
    IF s = "" THEN 0
    ELSE 10 * ParseInt(SubSeq(s, 1, Len(s) - 1)) + DigitVal(CharAt(s, Len(s)))

(***************************************************************************)
(* Regular expressions (module re)                                         *)
(***************************************************************************)
\* \s and \d on ASCII
Space == {" ", "\t", "\n", "\r"}
Digit == {"0", "1", "2", "3", "4", "5", "6", "7", "8", "9"}

Positions(s) == 1..(Len(s) + 1)

\* a literal k
Lit(s, P, k) == {i + Len(k) : i \in {p \in P : StartsWithAt(s, p, k)}}

\* the position after the longest run of characters of C that starts at i
RECURSIVE RunEnd(_, _, _)
RunEnd(s, i, C) ==
    IF i <= Len(s) /\ CharAt(s, i) \in C THEN RunEnd(s, i + 1, C) ELSE i

\* [C]*
Star(s, P, C) == UNION {i..RunEnd(s, i, C) : i \in P}

\* [C]+
Plus(s, P, C) == UNION {(i + 1)..RunEnd(s, i, C) : i \in P}

\* [C]
OneOf(s, P, C) == {i + 1 : i \in {p \in P : p <= Len(s) /\ CharAt(s, p) \in C}}

\* [C]?
Opt(s, P, C) == P \cup OneOf(s, P, C)

\* \s*
Ws(s, P) == Star(s, P, Space)

\* (\d+)\s*(year|month) from the start j of the digits: the ways to match, each
\* with the captured value and unit and the position after the unit.
NumUnit(s, j) ==
    UNION {UNION {{[val |-> ParseInt(SubSeq(s, j, e - 1)), unit |-> u, upto |-> f + Len(u)] :
                      u \in {v \in {"year", "month"} : StartsWithAt(s, f, v)}} :
                  f \in Ws(s, {e})} :
           e \in Plus(s, {j}, Digit)}

(***************************************************************************)
(* 3. Extract min/max age                                                  *)
(***************************************************************************)
\* min_patterns[n - 1] up to its group (\d+): where the digits may start.
\* The class [> U+2265] is ">" on ASCII text.
MinPrefix(n, s, P) ==
    CASE n = 1 -> Ws(s, Opt(s, Ws(s, Lit(s, P, "minimum age")), {":", "="}))
      [] n = 2 -> Ws(s, Lit(s, P, "from"))
      [] n = 3 -> Ws(s, Lit(s, P, "starting at"))
      [] n = 4 -> Ws(s, OneOf(s, Ws(s, Lit(s, P, "age")), {">"}))
      [] n = 5 -> P

\* what min_patterns[n - 1] asks for after the unit
MinSuffix(n, s, P) ==
    IF n = 5 THEN Lit(s, Ws(s, Opt(s, P, {"s"})), "and older") ELSE P

\* max_patterns[n - 1] up to its group (\d+)
MaxPrefix(n, s, P) ==
    CASE n = 1 -> Ws(s, Opt(s, Ws(s, Lit(s, P, "maximum age")), {":", "="}))
      [] n = 2 -> Ws(s, Lit(s, P, "up to"))
      [] n = 3 -> Ws(s, Lit(s, P, "<"))
      [] n = 4 -> Ws(s, Lit(s, P, "less than"))

min_patterns == 1..5
max_patterns == 1..4

Patterns(bound) == IF bound = "min" THEN min_patterns ELSE max_patterns

\* The matches of a pattern that start at position i.
MinMatchAt(n, s, i) ==
    {m \in UNION {NumUnit(s, j) : j \in MinPrefix(n, s, {i})} : MinSuffix(n, s, {m.upto}) # {}}

MaxMatchAt(n, s, i) == UNION {NumUnit(s, j) : j \in MaxPrefix(n, s, {i})}

MatchAt(bound, n, s, i) ==
    IF bound = "min" THEN MinMatchAt(n, s, i) ELSE MaxMatchAt(n, s, i)

\* the match the regex engine takes among those at one start: quantifiers are greedy
Preferred(M) == CHOOSE m \in M : \A o \in M : o.upto <= m.upto

\* where the match taken at i ends (the suffix of min_patterns[4] included)
MatchEnd(bound, n, s, m) ==
    IF bound = "min"
    THEN CHOOSE e \in MinSuffix(n, s, {m.upto}) : \A o \in MinSuffix(n, s, {m.upto}) : o <= e
    ELSE m.upto

\* re.finditer(pattern, text, flags=re.I) from position p on: the leftmost match,
\* then the matches after its end (matches do not overlap).
RECURSIVE FindIter(_, _, _, _)
FindIter(bound, n, s, p) ==
    LET starts == {i \in p..Len(s) : MatchAt(bound, n, s, i) # {}}
    IN  IF starts = {} THEN <<>>
        ELSE LET i == CHOOSE a \in starts : \A b \in starts : a <= b
                 m == Preferred(MatchAt(bound, n, s, i))
             IN  <<m>> \o FindIter(bound, n, s, MatchEnd(bound, n, s, m))

\* Months with the unit ignored
MonthsUnitIgnored(m) == m.val

\* months = val * 12 if "year" in unit else val
Months(m) == IF Contains(m.unit, "year") THEN m.val * 12 ELSE m.val

\* the matches of all the patterns of one list, in the order the loops visit them
RECURSIVE AllMatches(_, _, _)
AllMatches(bound, n, s) ==
    IF n \notin Patterns(bound) THEN <<>>
    ELSE FindIter(bound, n, s, 1) \o AllMatches(bound, n + 1, s)

\* the loop of lines 78-83: keep the smallest
RECURSIVE FoldMin(_, _)
FoldMin(acc, ms) ==
    IF ms = <<>> THEN acc
    ELSE FoldMin(IF acc = None \/ Months(Head(ms)) < acc THEN Months(Head(ms)) ELSE acc,
                 Tail(ms))

\* the loop of lines 85-90: keep the largest
RECURSIVE FoldMax(_, _)
FoldMax(acc, ms) ==
    IF ms = <<>> THEN acc
    ELSE FoldMax(IF acc = None \/ Months(Head(ms)) > acc THEN Months(Head(ms)) ELSE acc,
                 Tail(ms))

\* extract_min_max_age(text): re.I is matching on the lowered text, the patterns
\* being lower-case ASCII.
extract_min_max_age(t) ==
    [min_age |-> FoldMin(None, AllMatches("min", 1, Lower(t))),
     max_age |-> FoldMax(None, AllMatches("max", 1, Lower(t)))]

(***************************************************************************)
(* 1. The mapping files (sample contents: the files are read at start-up   *)
(* and are not part of the repository)                                     *)
(***************************************************************************)
\* infant_mapping.json: condition -> typical onset
age_map ==
    ("sma" :> "Birth") @@ ("asthma" :> "Childhood") @@ ("dmd" :> "3 years")
        @@ ("thalassemia" :> "Variable")

\* cgt_mapping.json: condition -> relevance
cgt_map ==
    ("sma" :> "Relevant") @@ ("thalassemia" :> "Relevant") @@ ("dmd" :> "Likely Relevant")

\* pipeline_cgt_conditions.json: data.get("conditions", [])
pipeline_cgt_conditions == <<"sma", "hemophilia a">>

\* dict.get(key, default)
Get(map, key, default) == IF key \in DOMAIN map THEN map[key] ELSE default

\* any(x in s for x in words)
AnyIn(words, s) == \E x \in words : Contains(s, x)

(***************************************************************************)
(* 2. Infant inclusion patterns                                            *)
(***************************************************************************)
\* include_patterns[n - 1]: the positions where a match that starts in P can end
IncludePattern(n, s, P) ==
    CASE n = 1  -> Lit(s, Ws(s, Lit(s, P, "from") \cup Lit(s, P, "starting at")
                                   \cup Lit(s, P, "age")), "0")
      [] n = 2  -> Lit(s, Ws(s, Lit(s, P, "from") \cup Lit(s, P, "starting at")), "birth")
      [] n = 3  -> Lit(s, P, "newborn")
      [] n = 4  -> Opt(s, Lit(s, P, "infant"), {"s"})
      [] n = 5  -> LET q == Ws(s, Lit(s, P, "less than"))
                   IN  Lit(s, Ws(s, Lit(s, q, "12") \cup Lit(s, q, "18") \cup Lit(s, q, "24")),
                           "months")
      [] n = 6  -> LET q == Ws(s, Lit(s, P, "<"))
                   IN  Lit(s, Ws(s, Lit(s, q, "12") \cup Lit(s, q, "18") \cup Lit(s, q, "24")),
                           "months")
      [] n = 7  -> LET q == Ws(s, Lit(s, P, "<"))
                   IN  Opt(s, Lit(s, Ws(s, Lit(s, q, "1") \cup Lit(s, q, "2")), "year"), {"s"})
      [] n = 8  -> Lit(s, Ws(s, Lit(s, Ws(s, Lit(s, P, "up to")), "18")), "months")
      [] n = 9  -> Lit(s, Ws(s, Lit(s, Ws(s, Lit(s, P, "up to")), "2")), "years")
      [] n = 10 -> Lit(s, Ws(s, Lit(s, Star(s, Lit(s, P, "0"), Space \cup {"-"}), "2")), "years")
      [] n = 11 -> Lit(s, Ws(s, Lit(s, Star(s, Lit(s, P, "0"), Space \cup {"-"}), "24")), "months")
      [] n = 12 -> Lit(s, Ws(s, Lit(s, Ws(s, Lit(s, P, "from")), "1")), "year")
      [] n = 13 -> Lit(s, Ws(s, Lit(s, Ws(s, Lit(s, P, "from")), "12")), "months")
      [] n = 14 -> Lit(s, Ws(s, Lit(s, Ws(s, Lit(s, P, ">")), "12")), "months")
      [] n = 15 -> Lit(s, Ws(s, Lit(s, Ws(s, Lit(s, P, ">")), "18")), "months")
      [] n = 16 -> Lit(s, Ws(s, Lit(s, Ws(s, Lit(s, P, ">")), "1")), "year")

include_patterns == 1..16

\* re.search(include_patterns[n - 1], s)
Search(n, s) == IncludePattern(n, s, Positions(s)) # {}

(***************************************************************************)
(* 4. Infant inclusion logic                                               *)
(***************************************************************************)
\* line 112: the onset names an infant population
InfantOnset(onset) ==
    AnyIn({"birth", "infant", "neonate", "0-2 years", "0-12 months", "0-24 months"}, onset)

\* line 128: the onset names an older population
OlderOnset(onset) ==
    AnyIn({"child", "adult", "adolescent", "3 years", "4 years", "5 years"}, onset)

\* the fallback of the variants that default to exclusion
FallbackDoesNotInclude == "Does not include infants"

\* line 132
Fallback == "Uncertain"

\* rules 3 to 8 (lines 110-132), reached with a condition that is a string
ByOnsetAndAge(text_lower, cond, min) ==
    LET onset == Lower(Get(age_map, Lower(cond), ""))
    IN  IF InfantOnset(onset) THEN "Likely to include infants"
        ELSE IF Contains(text_lower, "up to") /\ (min = None \/ min <= 18)
             THEN "Likely to include infants"
        ELSE IF min \in {24, 25} THEN "Unlikely to include infants but possible"
        ELSE IF min # None /\ min > 24 THEN "Does not include infants"
        ELSE IF min = None /\ OlderOnset(onset) THEN "Does not include infants"
        ELSE Fallback

\* assess_infant_inclusion(text, condition): the label, or the exception of
\* condition.lower() (line 111) when the condition is not a string.
assess_infant_inclusion(txt, cond) ==
    LET text_lower == IF NotNa(txt) THEN Lower(txt.s) ELSE ""
        age == extract_min_max_age(text_lower)
    IN  IF \E n \in include_patterns : Search(n, text_lower) THEN "Include infants"
        ELSE IF age.min_age # None /\ age.min_age <= 24 THEN "Include infants"
        ELSE IF ~NotNa(cond) THEN "AttributeError"
        ELSE ByOnsetAndAge(text_lower, cond.s, age.min_age)

(***************************************************************************)
(* 5. ClinicalTrials.gov API with contacts and locations                   *)
(***************************************************************************)
\* A field of a study of the search response: a list of values, or no such key.
Field(vals) == [present |-> TRUE, vals |-> vals]
NoField == [present |-> FALSE, vals |-> <<>>]

\* s.get(key, ["N/A"])[0] raises IndexError on an empty list
FieldRaises(f) == f.present /\ f.vals = <<>>
FieldFirst(f) == IF f.present THEN f.vals[1] ELSE "N/A"

\* One study raises out of the loop body (lines 153-162): an empty field list, or
\* a detail request that fails or does not answer JSON.
StudyRaises(s) == FieldRaises(s.Phase) \/ FieldRaises(s.OverallStatus) \/ s.detail = "error"

\* lines 167-188: the detail answer parsed, or the two placeholder lists
Contacts(s) ==
    IF s.detail = "malformed" THEN <<"No contact data found.">>
    ELSE [i \in DOMAIN s.officials |->
             s.officials[i].LastName \o " (" \o s.officials[i].Role \o ")"]

Locations(s) ==
    IF s.detail = "malformed" THEN <<"No location data found.">> ELSE <<>>

\* lines 190-198
StudyInfo(s) ==
    [nct_id    |-> s.NCTId,
     title     |-> s.BriefTitle,
     phase     |-> FieldFirst(s.Phase),
     status    |-> FieldFirst(s.OverallStatus),
     link      |-> "https://clinicaltrials.gov/ct2/show/" \o s.NCTId,
     contacts  |-> Contacts(s),
     locations |-> Locations(s)]

\* check_clinicaltrials_gov(condition), given what the registry answers: any
\* exception (request, JSON, a study that raises) is caught and gives [].
check_clinicaltrials_gov(resp) ==
    IF ~resp.ok \/ \E i \in DOMAIN resp.studies : StudyRaises(resp.studies[i])
    THEN <<>>
    ELSE [i \in DOMAIN resp.studies |-> StudyInfo(resp.studies[i])]

(***************************************************************************)
(* 6. CGT relevance logic with pipeline and search links                   *)
(***************************************************************************)
\* cgt_map.get(condition_lower, None) when the key is missing
NoRelevance == "None"

\* line 224
InPipeline(condition_lower) ==
    \E i \in DOMAIN pipeline_cgt_conditions :
        Contains(condition_lower, pipeline_cgt_conditions[i])

phase_prefixes ==
    {"phase 1", "phase i", "phase ii", "phase 2", "phase iii", "phase 3", "phase iv",
     "phase 4", "approved"}

\* QualifyingPhase without the prefix test: any phase but "N/A" qualifies
QualifyingPhaseAnyKnown(phase) == phase # "N/A"

\* lines 227-228
QualifyingPhase(phase) ==
    phase # "N/A" /\ \E pre \in phase_prefixes : StartsWith(Lower(phase), pre)

\* lines 226-230
HasPhaseIOrHigher(studies) == \E i \in DOMAIN studies : QualifyingPhase(studies[i].phase)

cgt_keywords ==
    {"cell therapy", "gene therapy", "crispr", "talen", "zfn", "gene editing",
     "gene correction", "gene silencing", "reprogramming", "cgt", "c&gt", "car-t therapy"}

\* lines 253-261
GoogleLink(cond) ==
    [title     |-> "Google Search: Is there a gene therapy for this condition?",
     link      |-> "https://www.google.com/search?q=is+there+a+gene+therapy+for+"
                       \o Replace(cond, " ", "+"),
     phase     |-> "N/A",
     status    |-> "N/A",
     contacts  |-> <<>>,
     locations |-> <<>>]

\* lines 264-272
PubMedLink(cond) ==
    [title     |-> "PubMed Search",
     link      |-> "https://pubmed.ncbi.nlm.nih.gov/?term=" \o Replace(cond, " ", "+")
                       \o "+gene+therapy",
     phase     |-> "N/A",
     status    |-> "N/A",
     contacts  |-> <<>>,
     locations |-> <<>>]

\* lines 241-274: keyword detection and the two search links
KeywordFallback(txt, cond, studies) ==
    LET text_lower == IF NotNa(txt) THEN Lower(txt.s) ELSE ""
    IN  [label |-> IF AnyIn(cgt_keywords, text_lower) THEN "Likely Relevant" ELSE "Unsure",
         links |-> studies \o <<GoogleLink(cond), PubMedLink(cond)>>]

\* assess_cgt_relevance_and_links(text, condition), given what the registry answers
\* to the lookup of line 218: the label and the links, or the exception of
\* condition.lower() (line 211) when the condition is not a string.
assess_cgt_relevance_and_links(txt, cond, resp) ==
    IF ~NotNa(cond) THEN [label |-> "AttributeError", links |-> <<>>]
    ELSE
    LET condition_lower == Lower(cond.s)
        relevance == Get(cgt_map, condition_lower, NoRelevance)
        studies == check_clinicaltrials_gov(resp)
        found_study == studies # <<>>
    IN  IF InPipeline(condition_lower)
        THEN [label |-> IF HasPhaseIOrHigher(studies) THEN "Relevant" ELSE "Likely Relevant",
              links |-> studies]
        ELSE IF relevance \in {"Relevant", "Likely Relevant"} /\ found_study
        THEN [label |-> relevance, links |-> studies]
        ELSE KeywordFallback(txt, cond.s, studies)

(***************************************************************************)
(* Inputs                                                                  *)
(***************************************************************************)
\* the number of pieces of a text
MaxParts == 2
\* the number of studies of a registry answer
MaxStudies == 2

SeqsUpTo(S, n) == UNION {[1..k -> S] : k \in 0..n}

\* " ".join(ps)
RECURSIVE Join(_)
Join(ps) ==
    IF ps = <<>> THEN ""
    ELSE IF Len(ps) = 1 THEN ps[1]
    ELSE ps[1] \o " " \o Join(Tail(ps))

Conditions ==
    {Str("SMA"), Str("Thalassemia"), Str("DMD"), Str("Hemophilia A"),
     Str("Severe Hemophilia A"), Str("Asthma"), NaN}

\* age mentions: a phrasing, a value and a unit
LowerForms == {"minimum age", "from", "starting at", "age >", "and older"}
UpperForms == {"maximum age", "up to", "<", "less than"}
Amounts == {<<2, "years">>, <<14, "Years">>, <<18, "months">>}
Mentions == [form : LowerForms \cup UpperForms, amount : Amounts]

Amount(m) == ToString(m.amount[1]) \o " " \o m.amount[2]

Render(m) ==
    IF m.form = "and older" THEN Amount(m) \o " and older"
    ELSE IF m.form = "minimum age" THEN "Minimum age: " \o Amount(m)
    ELSE m.form \o " " \o Amount(m)

RenderAll(ms) == [i \in DOMAIN ms |-> Render(ms[i])]

\* pieces of eligibility text
InfantPhrases ==
    {"no infants", "excluding infants", "does not include infants", "infants excluded",
     "newborn", "adults",
     "minimum age 23 months", "minimum age 2 years", "minimum age 25 months",
     "minimum age 26 months", "up to 5 years"}

CgtPhrases == {"this trial uses CRISPR-based correction", "natural history study"}

\* studies as the registry may answer them
Official == [LastName |-> "Smith", Role |-> "Principal Investigator"]

RawStudy(id, phase, detail) ==
    [NCTId |-> id, BriefTitle |-> "Study " \o id, Phase |-> phase,
     OverallStatus |-> Field(<<"Recruiting">>), detail |-> detail,
     officials |-> <<Official>>]

RawStudies ==
    {RawStudy("NCT01", NoField, "ok"),
     RawStudy("NCT02", Field(<<>>), "ok"),
     RawStudy("NCT03", Field(<<"Phase 1">>), "malformed"),
     RawStudy("NCT04", Field(<<"Early Phase 1">>), "ok"),
     RawStudy("NCT05", Field(<<"Phase 2/Phase 3">>), "ok"),
     RawStudy("NCT06", Field(<<"Phase 2">>), "error"),
     RawStudy("NCT07", Field(<<"Not Applicable">>), "ok")}

RequestFailed == [ok |-> FALSE, studies |-> <<>>]
Responses == {RequestFailed} \cup {[ok |-> TRUE, studies |-> ss] : ss \in SeqsUpTo(RawStudies, MaxStudies)}
NoResponse == [ok |-> FALSE, studies |-> <<"none">>]

(***************************************************************************)
(* Specifications: the input is drawn, then one function is applied to it  *)
(***************************************************************************)
Start ==
    /\ pc = "start" /\ response = NoResponse
    /\ min_age = None /\ max_age = None /\ result = "" /\ links = <<>>

InitAge ==
    /\ parts \in SeqsUpTo(Mentions, MaxParts)
    /\ text = Str(Join(RenderAll(parts)))
    /\ condition = NaN
    /\ Start

InitInfant ==
    /\ parts \in SeqsUpTo(InfantPhrases, MaxParts)
    /\ text \in {Str(Join(parts))} \cup (IF parts = <<>> THEN {NaN} ELSE {})
    /\ condition \in Conditions
    /\ Start

InitCgt ==
    /\ parts \in SeqsUpTo(CgtPhrases, MaxParts)
    /\ text \in {Str(Join(parts))} \cup (IF parts = <<>> THEN {NaN} ELSE {})
    /\ condition \in Conditions
    /\ Start

ExtractMinMaxAge ==
    /\ pc = "start"
    /\ pc' = "extract_min_max_age"
    /\ min_age' = extract_min_max_age(text.s).min_age
    /\ max_age' = extract_min_max_age(text.s).max_age
    /\ UNCHANGED <<parts, text, condition, response, result, links>>

AssessInfantInclusion ==
    /\ pc = "start"
    /\ pc' = "assess_infant_inclusion"
    /\ LET text_lower == IF NotNa(text) THEN Lower(text.s) ELSE ""
       IN  /\ min_age' = extract_min_max_age(text_lower).min_age
           /\ max_age' = extract_min_max_age(text_lower).max_age
    /\ result' = assess_infant_inclusion(text, condition)
    /\ UNCHANGED <<parts, text, condition, response, links>>

AssessCgtRelevanceAndLinks ==
    /\ pc = "start"
    /\ pc' = "assess_cgt_relevance_and_links"
    /\ \E r \in Responses :
        /\ response' = IF NotNa(condition) THEN r ELSE NoResponse
        /\ result' = assess_cgt_relevance_and_links(text, condition, r).label
        /\ links' = assess_cgt_relevance_and_links(text, condition, r).links
    /\ UNCHANGED <<parts, text, condition, min_age, max_age>>

SpecAge == InitAge /\ [][ExtractMinMaxAge]_vars
SpecInfant == InitInfant /\ [][AssessInfantInclusion]_vars
SpecCgt == InitCgt /\ [][AssessCgtRelevanceAndLinks]_vars

(***************************************************************************)
(* Properties                                                              *)
(***************************************************************************)
InfantDone == pc = "assess_infant_inclusion"
CgtDone == pc = "assess_cgt_relevance_and_links"
AgeDone == pc = "extract_min_max_age"

TextLower == IF NotNa(text) THEN Lower(text.s) ELSE ""

ExclusionPhrases ==
    {"no infants", "excluding infants", "does not include infants", "infants excluded"}

\* conditions by what the sample tables hold for them
NoOnsetConditions == {c \in Conditions : NotNa(c) /\ Lower(c.s) \notin DOMAIN age_map}
OlderOnsetConditions == {Str("Asthma"), Str("DMD")}
InfantOnsetConditions == {Str("SMA")}
PipelineEntries == {pipeline_cgt_conditions[i] : i \in DOMAIN pipeline_cgt_conditions}

\* C1: a text that contains an explicit exclusion phrase is labelled "Does not
\* include infants", whatever else it contains and whatever the condition is.
C1_ExclusionOutranksInclusion ==
    (InfantDone /\ NotNa(condition) /\ AnyIn(ExclusionPhrases, TextLower))
        => result = "Does not include infants"

C2_Texts ==
    {<<"minimum age 23 months", 23>>, <<"minimum age 2 years", 24>>,
     <<"minimum age 25 months", 25>>, <<"minimum age 26 months", 26>>}

C2_Expected(m) ==
    IF m < 24 THEN "Include infants"
    ELSE IF m = 24 THEN "Unlikely to include infants but possible"
    ELSE "Does not include infants"

\* C2: a text whose only age mention is a minimum age of m months, with a condition
\* absent from the onset table, is labelled "Include infants" when m < 24,
\* "Unlikely to include infants but possible" when m = 24 and "Does not include
\* infants" when m > 24.
C2_BoundaryAt24Months ==
    (InfantDone /\ condition \in NoOnsetConditions)
        => \A tm \in C2_Texts : text = Str(tm[1]) => result = C2_Expected(tm[2])

\* C3: a condition that cgt_map maps to Relevant is labelled "Relevant" for every
\* text and every answer of the registry.
C3_ApprovedAlwaysRelevant ==
    (CgtDone /\ NotNa(condition)
        /\ Get(cgt_map, Lower(condition.s), NoRelevance) = "Relevant")
        => result = "Relevant"

\* C4: on every return path the links hold the Google-search link and the
\* PubMed-search link of the condition.
C4_FallbackLinksAlwaysPresent ==
    (CgtDone /\ NotNa(condition))
        => /\ \E i \in DOMAIN links : links[i] = GoogleLink(condition.s)
           /\ \E i \in DOMAIN links : links[i] = PubMedLink(condition.s)

C5_StudyWithoutPhase == [ok |-> TRUE, studies |-> <<RawStudy("NCT01", NoField, "ok")>>]

\* C5: when the registry lookup fails no exception surfaces, and for a condition
\* the map marks Relevant or Likely Relevant the label is the one returned when the
\* lookup succeeds with studies of no qualifying phase.
C5_LookupFailureKeepsLabel ==
    (CgtDone /\ NotNa(condition) /\ response = RequestFailed
        /\ Get(cgt_map, Lower(condition.s), NoRelevance) \in {"Relevant", "Likely Relevant"})
        => /\ result # "AttributeError"
           /\ result = assess_cgt_relevance_and_links(text, condition,
                                                      C5_StudyWithoutPhase).label

\* texts with no age phrase, no inclusion phrase and no exclusion phrase
C6_PlainText == \A i \in DOMAIN parts : parts[i] = "adults"

\* C6, as claimed: "Does not include infants" only with an exclusion phrase or a
\* detected minimum age above 24 months; with no age phrase, an onset that suggests
\* an older population gives "Unlikely to include infants but possible".
C6_NoExclusionWithoutEvidence ==
    InfantDone =>
        /\ result = "Does not include infants"
              => (AnyIn(ExclusionPhrases, TextLower) \/ (min_age # None /\ min_age > 24))
        /\ (C6_PlainText /\ condition \in OlderOnsetConditions)
              => result = "Unlikely to include infants but possible"

\* C6, amended: "Does not include infants" only with an exclusion phrase, a detected
\* minimum age above 24 months, or no detected minimum age and an onset that
\* suggests an older population; with no age or inclusion phrase in the text such
\* an onset gives "Does not include infants", and a condition with an uninformative
\* or missing onset gives "Uncertain".
C6_ExclusionOnlyByAgeOrOnset ==
    InfantDone =>
        /\ result = "Does not include infants"
              => \/ AnyIn(ExclusionPhrases, TextLower)
                 \/ (min_age # None /\ min_age > 24)
                 \/ (min_age = None /\ condition \in OlderOnsetConditions)
        /\ (C6_PlainText /\ condition \in OlderOnsetConditions)
              => result = "Does not include infants"
        /\ (C6_PlainText /\ NotNa(condition)
               /\ condition \notin (OlderOnsetConditions \cup InfantOnsetConditions))
              => result = "Uncertain"

C6_Witness ==
    /\ InfantDone /\ C6_PlainText /\ parts # <<>> /\ min_age = None
    /\ condition = Str("Asthma") /\ result = "Does not include infants"

\* C7: neither classifier raises, whether the text and the condition are absent,
\* empty or not.
C7_NeverRaises == (InfantDone \/ CgtDone) => result # "AttributeError"

\* C8: a condition equal to no key of cgt_map and to no pipeline entry is labelled
\* by the text alone: "Likely Relevant" with a CGT keyword, "Unsure" without.
C8_UnmappedDependsOnTextOnly ==
    (CgtDone /\ NotNa(condition)
        /\ Lower(condition.s) \notin DOMAIN cgt_map
        /\ Lower(condition.s) \notin PipelineEntries)
        => result = (IF AnyIn(cgt_keywords, TextLower) THEN "Likely Relevant" ELSE "Unsure")

\* the phases of the sample studies that are Phase 1 or higher
C9_PhaseOneOrHigher == {"Phase 1", "Phase 2", "Phase 2/Phase 3"}

\* the studies the lookup returned: none when the request or any study raised
C9_Returned ==
    IF response.ok /\ \A i \in DOMAIN response.studies :
           /\ response.studies[i].Phase # Field(<<>>)
           /\ response.studies[i].detail # "error"
    THEN response.studies ELSE <<>>

C9_PipelineCase ==
    /\ CgtDone /\ NotNa(condition)
    /\ Lower(condition.s) \notin DOMAIN cgt_map
    /\ Lower(condition.s) \in PipelineEntries

\* C9: for a condition outside cgt_map that equals a pipeline entry the label is
\* "Relevant" if and only if the lookup returned a study of Phase 1 or higher, and
\* "Likely Relevant" otherwise, whatever the text is.
C9_PipelineLabelByPhase ==
    C9_PipelineCase =>
        result = (IF \E i \in DOMAIN C9_Returned :
                         /\ C9_Returned[i].Phase.present
                         /\ C9_Returned[i].Phase.vals[1] \in C9_PhaseOneOrHigher
                  THEN "Relevant" ELSE "Likely Relevant")

C9_Witness ==
    /\ C9_PipelineCase /\ result = "Relevant" /\ Len(response.studies) = 2
    /\ ~AnyIn(cgt_keywords, TextLower)

\* the months of a mention, from the pieces the text was rendered from
C10_Months(m) == IF m.amount[2] \in {"years", "Years"} THEN m.amount[1] * 12 ELSE m.amount[1]

C10_Lower == {C10_Months(parts[i]) : i \in {j \in DOMAIN parts : parts[j].form \in LowerForms}}
C10_Upper == {C10_Months(parts[i]) : i \in {j \in DOMAIN parts : parts[j].form \in UpperForms}}

\* C10: min_age is the smallest lower-bound mention in months and max_age the
\* largest upper-bound mention in months; a bound with no mention is None.
C10_TightestMinLoosestMax ==
    AgeDone =>
        /\ min_age = (IF C10_Lower = {} THEN None
                      ELSE CHOOSE a \in C10_Lower : \A b \in C10_Lower : a <= b)
        /\ max_age = (IF C10_Upper = {} THEN None
                      ELSE CHOOSE a \in C10_Upper : \A b \in C10_Upper : a >= b)

C10_Witness ==
    /\ AgeDone /\ Len(parts) = 2
    /\ parts[1] = [form |-> "and older", amount |-> <<14, "Years">>]
    /\ parts[2] = [form |-> "from", amount |-> <<18, "months">>]
    /\ min_age = 18 /\ max_age = None

====
